---------------------------- MODULE Spec2Model ----------------------------
(***************************************************************************)
(* Model of coub-gui.py: the option-resolution layer in front of the      *)
(* download engine.  One run of the script is a chain of steps:           *)
(*   GuiDefaultOptions()  ->  parser construction  ->  parse_args()  ->   *)
(*   error check  ->  input descriptors  ->  archive  ->  normalisation   *)
(*   ->  translate_to_cli  ->  coub.main().                               *)
(* Text that the code splits, strips or joins is a sequence of            *)
(* one-character strings; text that is only compared is a TLA+ string.    *)
(***************************************************************************)
EXTENDS Integers, Sequences, FiniteSets, TLC

VARIABLES
    config,   \* what coub.DefaultOptions loads from the config sources
    home,     \* the user's home directory, os.path.expanduser("~")
    fs,       \* the files that exist: path -> sequence of lines
    defs,     \* the GuiDefaultOptions object
    parser,   \* the defaults registered with the GooeyParser
    args,     \* the argparse namespace
    pc,       \* position of the script
    status,   \* exit status of the process
    opts      \* coub.opts, the command handed to the engine

vars == <<config, home, fs, defs, parser, args, pc, status, opts>>

----------------------------------------------------------------------------
(* Bounds of the model.                                                    *)

\* Total number of characters typed into the eight free-text fields.
MaxText == 3
\* Largest repeat count of --random.
MaxRandom == 2
\* Largest number of lines of an archive file.
MaxLines == 3

----------------------------------------------------------------------------
(* Python values.                                                          *)

\* Python's None, distinct from every string of the model.
None == "<None>"

\* Marker of a lookup that raises (KeyError, IndexError).
Raises == "<raises>"

Chars == {"a", ",", " "}

Whitespace == {" ", "\n"}

\* All texts of at most n characters.
TextsUpTo(n) == UNION {[1..k -> Chars] : k \in 0..n}

\* list[i] of Python: indices 0..len-1, and -len..-1 counted from the end.
PyHasIndex(list, i) == (0 <= i /\ i < Len(list)) \/ (i < 0 /\ -i <= Len(list))

PyIndex(list, i) ==
    IF ~PyHasIndex(list, i) THEN Raises
    ELSE IF i >= 0 THEN list[i + 1] ELSE list[Len(list) + i + 1]

\* dict.get(k, "None"): a missing key gives a label instead of raising.
PyGetDefault(dict, k) == IF k \in DOMAIN dict THEN dict[k] ELSE "None"

\* dict[k] of Python, the dict being a function.
PyGet(dict, k) == IF k \in DOMAIN dict THEN dict[k] ELSE Raises

\* Setting an attribute of a namespace, creating it when it is new.
SetAttr(ns, name, val) ==
    [k \in (DOMAIN ns) \cup {name} |-> IF k = name THEN val ELSE ns[k]]

\* Index of the first sep in s, or 0.
RECURSIVE Find(_, _, _)
Find(s, sep, i) ==
    IF i > Len(s) THEN 0
    ELSE IF s[i] = sep THEN i
    ELSE Find(s, sep, i + 1)

\* str.split(sep): the pieces between the separators, empty pieces included.
RECURSIVE split(_, _)
split(s, sep) ==
    LET i == Find(s, sep, 1) IN
    IF i = 0 THEN <<s>>
    ELSE <<SubSeq(s, 1, i - 1)>> \o split(SubSeq(s, i + 1, Len(s)), sep)

\* [x for x in list]: the filter forgotten.
KeepAll(list) == list

\* [x for x in list if x]: an empty string is falsy.
RECURSIVE Truthy(_)
Truthy(list) ==
    IF list = <<>> THEN <<>>
    ELSE IF Head(list) = <<>> THEN Truthy(Tail(list))
    ELSE <<Head(list)>> \o Truthy(Tail(list))

RECURSIVE lstrip(_)
lstrip(s) ==
    IF s # <<>> /\ Head(s) \in Whitespace THEN lstrip(Tail(s)) ELSE s

RECURSIVE rstrip(_)
rstrip(s) ==
    IF s # <<>> /\ s[Len(s)] \in Whitespace
    THEN rstrip(SubSeq(s, 1, Len(s) - 1)) ELSE s

\* str.lstrip() in place of str.strip()
strip_left(s) == lstrip(s)

\* str.strip()
strip(s) == rstrip(lstrip(s))

\* os.path.isabs (posix)
isabs(p) == p # <<>> /\ p[1] = "/"

\* os.path.join of two components (posix)
join(a, b) ==
    IF isabs(b) THEN b
    ELSE IF a = <<>> \/ a[Len(a)] = "/" THEN a \o b
    ELSE a \o <<"/">> \o b

coubs == <<"c", "o", "u", "b", "s">>


----------------------------------------------------------------------------
(* Label tables of GuiDefaultOptions: code -> label.                       *)

\* The quality labels in the order of the parser's choices.
QUALITY_LABEL_Swapped == <<"Best quality", "Worst quality">>

QUALITY_LABEL == <<"Worst quality", "Best quality">>

AAC_LABEL == <<"Only MP3", "No Bias", "Prefer AAC", "Only AAC">>

RECOUB_LABEL == <<"No Recoubs", "With Recoubs", "Only Recoubs">>

SPECIAL_LABEL ==
    (<<FALSE, FALSE, FALSE>> :> "None") @@
    (<<TRUE, FALSE, FALSE>> :> "Share") @@
    (<<FALSE, TRUE, FALSE>> :> "Video only") @@
    (<<FALSE, FALSE, TRUE>> :> "Audio only")

(* Label tables of translate_to_cli: label -> code.                        *)

CLI_QUALITY_LABEL == ("Worst quality" :> 0) @@ ("Best quality" :> -1)

\* The audio codes counted from 1.
CLI_AAC_LABEL_FromOne ==
    ("Only MP3" :> 1) @@ ("No Bias" :> 2) @@ ("Prefer AAC" :> 3) @@
    ("Only AAC" :> 4)

CLI_AAC_LABEL ==
    ("Only MP3" :> 0) @@ ("No Bias" :> 1) @@ ("Prefer AAC" :> 2) @@
    ("Only AAC" :> 3)

CLI_RECOUB_LABEL ==
    ("No Recoubs" :> 0) @@ ("With Recoubs" :> 1) @@ ("Only Recoubs" :> 2)

CLI_SPECIAL_LABEL ==
    ("None" :> <<FALSE, FALSE, FALSE>>) @@
    ("Share" :> <<TRUE, FALSE, FALSE>>) @@
    ("Video only" :> <<FALSE, TRUE, FALSE>>) @@
    ("Audio only" :> <<FALSE, FALSE, TRUE>>)

(* The choices= lists of the parser.                                       *)

RecoubChoices == {"No Recoubs", "With Recoubs", "Only Recoubs"}

QualityChoices == {"Best quality", "Worst quality"}

AacChoices == {"Only MP3", "No Bias", "Prefer AAC", "Only AAC"}

SpecialChoices == {"None", "Share", "Video only", "Audio only"}

PromptChoices == {"yes", "no"}

----------------------------------------------------------------------------
(* translate_to_cli                                                        *)

\* A label missing from its table raises KeyError.
InTables(options) ==
    /\ options.v_quality \in DOMAIN CLI_QUALITY_LABEL
    /\ options.a_quality \in DOMAIN CLI_QUALITY_LABEL
    /\ options.aac \in DOMAIN CLI_AAC_LABEL
    /\ options.recoubs \in DOMAIN CLI_RECOUB_LABEL
    /\ options.special \in DOMAIN CLI_SPECIAL_LABEL

translate_to_cli(options) ==
    IF ~InTables(options) THEN Raises
    ELSE LET sp == CLI_SPECIAL_LABEL[options.special] IN
         SetAttr(SetAttr(SetAttr(
             [options EXCEPT !.v_quality = CLI_QUALITY_LABEL[@],
                             !.a_quality = CLI_QUALITY_LABEL[@],
                             !.aac = CLI_AAC_LABEL[@],
                             !.recoubs = CLI_RECOUB_LABEL[@]],
             "share", sp[1]), "v_only", sp[2]), "a_only", sp[3])

----------------------------------------------------------------------------
(* GuiDefaultOptions                                                       *)

\* The built-in defaults of coub.DefaultOptions.
BuiltIn ==
    [PROMPT |-> None, PATH |-> <<".">>, error |-> FALSE,
     RECOUBS |-> 1, V_QUALITY |-> -1, A_QUALITY |-> -1, AAC |-> 1,
     SHARE |-> FALSE, V_ONLY |-> FALSE, A_ONLY |-> FALSE,
     NAME_TEMPLATE |-> "%id%", TAG_SEP |-> "_", FALLBACK_CHAR |-> "-",
     ARCHIVE |-> None, PREVIEW |-> None]

\* The corrections without the one of the path.
GuiDefaultOptionsKeepPath(loaded, homedir) ==
    [loaded EXCEPT !.PROMPT = IF @ \notin {"yes", "no"} THEN "no" ELSE @]

\* GuiDefaultOptions.__init__: the loaded defaults, then the two corrections.
GuiDefaultOptions(loaded, homedir) ==
    [loaded EXCEPT
        !.PROMPT = IF @ \notin {"yes", "no"} THEN "no" ELSE @,
        !.PATH = IF ~isabs(@) THEN join(homedir, coubs) ELSE @]

GuiDefaultOptionsInit ==
    /\ pc = "start"
    /\ defs' = GuiDefaultOptions(config, home)
    /\ pc' = "build"
    /\ UNCHANGED <<config, home, fs, parser, args, status, opts>>

----------------------------------------------------------------------------
(* parse_cli: construction of the parser                                   *)

FieldNames ==
    <<"urls", "ids", "lists", "channels", "tags", "searches",
      "communities", "stories">>

\* The default= of every argument, and set_defaults.
ParserDefaults(d) ==
    [urls |-> <<>>, ids |-> <<>>, channels |-> <<>>,
     recoubs |-> PyIndex(RECOUB_LABEL, d.RECOUBS),
     tags |-> <<>>, searches |-> <<>>, communities |-> <<>>,
     stories |-> <<>>, lists |-> <<>>, random |-> 0, hot |-> FALSE,
     prompt |-> d.PROMPT, preview |-> d.PREVIEW, archive |-> d.ARCHIVE,
     v_quality |-> PyIndex(QUALITY_LABEL, d.V_QUALITY),
     a_quality |-> PyIndex(QUALITY_LABEL, d.A_QUALITY),
     aac |-> PyIndex(AAC_LABEL, d.AAC),
     special |-> PyGet(SPECIAL_LABEL, <<d.SHARE, d.V_ONLY, d.A_ONLY>>),
     path |-> d.PATH, name_template |-> d.NAME_TEMPLATE,
     tag_sep |-> d.TAG_SEP, fallback_char |-> d.FALLBACK_CHAR]

LabelDefaults == {"recoubs", "v_quality", "a_quality", "aac", "special"}

BuildParser ==
    /\ pc = "build"
    /\ LET p == ParserDefaults(defs) IN
       IF \E k \in LabelDefaults : p[k] = Raises
       THEN /\ pc' = "crashed"
            /\ status' = "exception"
            /\ UNCHANGED parser
       ELSE /\ pc' = "parse"
            /\ parser' = p
            /\ UNCHANGED status
    /\ UNCHANGED <<config, home, fs, defs, args, opts>>

\* parser.parse_args(): the namespace the user's form produces, one of users.
ParseArgs(users) ==
    /\ pc = "parse"
    /\ \E u \in users : args' = u
    /\ pc' = "check"
    /\ UNCHANGED <<config, home, fs, defs, parser, status, opts>>

\* The error flag never looked at.
CheckErrorIgnored ==
    /\ pc = "check"
    /\ pc' = "urls"
    /\ UNCHANGED <<config, home, fs, defs, parser, args, status, opts>>

\* "Exit only after parsing to not hinder GUI creation"
CheckError ==
    /\ pc = "check"
    /\ IF defs.error
       THEN pc' = "exited" /\ status' = "OPT"
       ELSE pc' = "urls" /\ UNCHANGED status
    /\ UNCHANGED <<config, home, fs, defs, parser, args, opts>>

----------------------------------------------------------------------------
(* parse_cli: the input descriptors                                        *)

\* An element of args.input: kind is its Python class, payload what it wraps.
Desc(kind, payload) == [kind |-> kind, payload |-> payload]

\* coub.mapped_input(u)
mapped_input(u) == Desc("DirectUrl", u)

\* [Class(t) for t in text.split(",") if t]
RECURSIVE Wrap(_, _)
Wrap(kind, tokens) ==
    IF tokens = <<>> THEN <<>>
    ELSE <<Desc(kind, Head(tokens))>> \o Wrap(kind, Tail(tokens))

Tokens(text) == Truthy(split(text, ","))

RECURSIVE MapUrls(_)
MapUrls(tokens) ==
    IF tokens = <<>> THEN <<>>
    ELSE <<mapped_input(Head(tokens))>> \o MapUrls(Tail(tokens))

\* The new elements put in front.
extend_front(list, more) == more \o list

\* list.extend
extend(list, more) == list \o more

\* The class of the elements each extend line builds; the ids line builds none
\* and appends the tokens themselves, which are of Python's str.
UrlItems(a) == MapUrls(Tokens(a.urls))

IdItems(a) == Wrap("str", Tokens(a.ids))

ListItems(a) == Wrap("LinkList", Tokens(a.lists))

ChannelItems(a) == Wrap("Channel", Tokens(a.channels))

TagItems(a) == Wrap("Tag", Tokens(a.tags))

SearchItems(a) == Wrap("Search", Tokens(a.searches))

CommunityItems(a) == Wrap("Community", Tokens(a.communities))

StoryItems(a) == Wrap("Story", Tokens(a.stories))

HotItems(a) == IF a.hot THEN <<Desc("HotSection", <<>>)>> ELSE <<>>

\* for _ in range(n): append(RandomCategory())
RECURSIVE Repeat(_)
Repeat(n) ==
    IF n <= 0 THEN <<>> ELSE <<Desc("RandomCategory", <<>>)>> \o Repeat(n - 1)

\* "if args.random": the count is None without the flag, which the model writes
\* 0; both are falsy.
RandomItems(a) == IF a.random # 0 THEN Repeat(a.random) ELSE <<>>

Step(from, to, items) ==
    /\ pc = from
    /\ args' = [args EXCEPT !.input = extend(@, items)]
    /\ pc' = to
    /\ UNCHANGED <<config, home, fs, defs, parser, status, opts>>

ExtendUrls ==
    /\ pc = "urls"
    /\ args' = SetAttr(args, "input", extend(<<>>, UrlItems(args)))
    /\ pc' = "ids"
    /\ UNCHANGED <<config, home, fs, defs, parser, status, opts>>

ExtendIds == Step("ids", "lists", IdItems(args))

ExtendLists == Step("lists", "channels", ListItems(args))

ExtendChannels == Step("channels", "tags", ChannelItems(args))

ExtendTags == Step("tags", "searches", TagItems(args))

ExtendSearches == Step("searches", "communities", SearchItems(args))

ExtendCommunities == Step("communities", "stories", CommunityItems(args))

ExtendStories == Step("stories", "hot", StoryItems(args))

AppendHot == Step("hot", "random", HotItems(args))

AppendRandom == Step("random", "archive", RandomItems(args))

----------------------------------------------------------------------------
(* parse_cli: archive, normalisation, translation                          *)

\* A path is falsy when it is None or the empty string.
PathSet(p) == p # None /\ p # ""

exists(files, p) == p \in DOMAIN files

\* {l.strip() for l in f}
StrippedLines(lines) == {strip(lines[i]) : i \in 1..Len(lines)}

archive_content(a, files) ==
    IF PathSet(a.archive) /\ exists(files, a.archive)
    THEN StrippedLines(files[a.archive])
    ELSE {}

ReadArchive ==
    /\ pc = "archive"
    /\ args' = SetAttr(args, "archive_content", archive_content(args, fs))
    /\ pc' = "normalize"
    /\ UNCHANGED <<config, home, fs, defs, parser, status, opts>>

NormName(v) == IF v = "%id%" THEN None ELSE v

\* The keyword taken for the empty string.
NormTagSepEmpty(v) == IF v = "space" THEN "" ELSE v

NormTagSep(v) == IF v = "space" THEN " " ELSE v

NormFallback(v) == IF v = None THEN "" ELSE IF v = "space" THEN " " ELSE v

NormalizeOptions(a) ==
    [a EXCEPT !.name_template = NormName(@),
              !.tag_sep = NormTagSep(@),
              !.fallback_char = NormFallback(@)]

Normalize ==
    /\ pc = "normalize"
    /\ args' = NormalizeOptions(args)
    /\ pc' = "translate"
    /\ UNCHANGED <<config, home, fs, defs, parser, status, opts>>

\* return translate_to_cli(args)
Translate ==
    /\ pc = "translate"
    /\ IF ~InTables(args)
       THEN pc' = "crashed" /\ status' = "exception" /\ UNCHANGED args
       ELSE pc' = "returned" /\ args' = translate_to_cli(args) /\ UNCHANGED status
    /\ UNCHANGED <<config, home, fs, defs, parser, opts>>

\* coub.opts = parse_cli(); coub.main()
Main ==
    /\ pc = "returned"
    /\ opts' = args
    /\ pc' = "engine"
    /\ UNCHANGED <<config, home, fs, defs, parser, args, status>>

----------------------------------------------------------------------------
(* The environments a run starts in.                                       *)

\* An object without attributes.
Empty == [k \in {} |-> TRUE]

Unset(obj) == DOMAIN obj = {}

Homes == {<<"/", "h">>, <<"/">>}

LoadedPaths == {<<".">>, <<"/", "d">>, <<".", "/", "o">>, <<"o">>, <<>>}

\* Configurations that differ from the built-in defaults in one option, with
\* and without a recorded configuration error.
OneOption ==
    {[BuiltIn EXCEPT !.PROMPT = v] : v \in {None, "yes", "no", "ask"}} \cup
    {[BuiltIn EXCEPT !.PATH = v] : v \in LoadedPaths} \cup
    {[BuiltIn EXCEPT !.RECOUBS = v] : v \in 0..2} \cup
    {[BuiltIn EXCEPT !.V_QUALITY = v] : v \in {0, -1}} \cup
    {[BuiltIn EXCEPT !.A_QUALITY = v] : v \in {0, -1}} \cup
    {[BuiltIn EXCEPT !.AAC = v] : v \in 0..3} \cup
    {[BuiltIn EXCEPT !.SHARE = t[1], !.V_ONLY = t[2], !.A_ONLY = t[3]] :
        t \in DOMAIN SPECIAL_LABEL} \cup
    {[BuiltIn EXCEPT !.NAME_TEMPLATE = v] : v \in {"%id%", "%title%", "space"}} \cup
    {[BuiltIn EXCEPT !.TAG_SEP = v] : v \in {"_", "space", "%id%"}} \cup
    {[BuiltIn EXCEPT !.FALLBACK_CHAR = v] : v \in {None, "space", "-", "%id%"}} \cup
    {[BuiltIn EXCEPT !.PREVIEW = v] : v \in {None, "space", "%id%"}}

Configs == {[c EXCEPT !.error = e] : c \in OneOption, e \in BOOLEAN}

NoFiles == Empty

Env(c, h, f) == [config |-> c, home |-> h, fs |-> f]

Envs == {Env(c, h, NoFiles) : c \in Configs, h \in Homes}

InitOf(E) ==
    /\ \E e \in E : config = e.config /\ home = e.home /\ fs = e.fs
    /\ defs = Empty
    /\ parser = Empty
    /\ args = Empty
    /\ opts = Empty
    /\ pc = "start"
    /\ status = "running"

(* What the user may do with the form.                                     *)

LabelUsers(p) ==
    {[p EXCEPT !.recoubs = r, !.v_quality = v, !.a_quality = a,
               !.aac = c, !.special = s] :
        r \in RecoubChoices, v \in QualityChoices, a \in QualityChoices,
        c \in AacChoices, s \in SpecialChoices}

FreeTexts == {"%id%", "%title%", "space", "x"}

TextUsers(p) ==
    {[p EXCEPT !.name_template = v] : v \in FreeTexts} \cup
    {[p EXCEPT !.preview = v] : v \in FreeTexts} \cup
    {[p EXCEPT !.prompt = v] : v \in PromptChoices} \cup
    {[p EXCEPT !.urls = <<"a">>, !.hot = TRUE, !.random = 1]}

OptionUsers(p) == LabelUsers(p) \cup TextUsers(p)

\* Every way of filling the named fields with at most budget characters.
RECURSIVE Fill(_, _, _)
Fill(names, budget, ns) ==
    IF names = <<>> THEN {ns}
    ELSE UNION {Fill(Tail(names), budget - Len(t), [ns EXCEPT ![Head(names)] = t]) :
                   t \in TextsUpTo(budget)}

Min(a, b) == IF a < b THEN a ELSE b

\* The input tab: the hot checkbox and each repetition of --random count as
\* one character of the budget.
InputUsers(p) ==
    UNION {UNION {Fill(FieldNames, MaxText - h - r,
                       [p EXCEPT !.hot = (h = 1), !.random = r]) :
                     r \in 0..Min(MaxRandom, MaxText - h)} :
             h \in 0..1}

----------------------------------------------------------------------------
(* The specifications.                                                     *)

AfterParse ==
    \/ CheckError
    \/ ExtendUrls
    \/ ExtendIds
    \/ ExtendLists
    \/ ExtendChannels
    \/ ExtendTags
    \/ ExtendSearches
    \/ ExtendCommunities
    \/ ExtendStories
    \/ AppendHot
    \/ AppendRandom
    \/ ReadArchive
    \/ Normalize
    \/ Translate
    \/ Main

\* Runs over the configurations, the user adjusting the options.
Init == InitOf(Envs)

Next == GuiDefaultOptionsInit \/ BuildParser \/ ParseArgs(OptionUsers(parser)) \/ AfterParse

Spec == Init /\ [][Next]_vars

\* Runs with the built-in configuration, the user filling the input tab.
InitInput == InitOf({Env(BuiltIn, h, NoFiles) : h \in {<<"/", "h">>}})

NextInput == GuiDefaultOptionsInit \/ BuildParser \/ ParseArgs(InputUsers(parser)) \/ AfterParse

SpecInput == InitInput /\ [][NextInput]_vars

\* Runs over archive files, the user choosing the archive.
ArchiveLines ==
    {<<"x", "\n">>, <<" ", "x", "\n">>, <<"x", " ", "\n">>,
     <<"x", "x", "\n">>, <<"\n">>, <<"x">>}

LinesUpTo(n) == UNION {[1..k -> ArchiveLines] : k \in 0..n}

Files == {NoFiles} \cup {("a.txt" :> l) : l \in LinesUpTo(MaxLines)}

ArchiveConfigs == {[BuiltIn EXCEPT !.ARCHIVE = v] : v \in {None, "", "a.txt"}}

ArchiveUsers(p) == {[p EXCEPT !.archive = v] : v \in {p.archive, "a.txt", "b.txt"}}

InitArchive == InitOf({Env(c, <<"/", "h">>, f) : c \in ArchiveConfigs, f \in Files})

NextArchive == GuiDefaultOptionsInit \/ BuildParser \/ ParseArgs(ArchiveUsers(parser)) \/ AfterParse

SpecArchive == InitArchive /\ [][NextArchive]_vars

\* Runs over default codes and labels outside the tables: the lookups of the
\* parser's defaults on any loaded code, and translate_to_cli on any labels.
MaxCode == 5

CodeRange == (0 - MaxCode)..MaxCode

AnyCodes ==
    {[BuiltIn EXCEPT !.RECOUBS = v] : v \in CodeRange} \cup
    {[BuiltIn EXCEPT !.V_QUALITY = v] : v \in CodeRange} \cup
    {[BuiltIn EXCEPT !.A_QUALITY = v] : v \in CodeRange} \cup
    {[BuiltIn EXCEPT !.AAC = v] : v \in CodeRange} \cup
    {[BuiltIn EXCEPT !.SHARE = a, !.V_ONLY = b, !.A_ONLY = c] :
        a \in BOOLEAN, b \in BOOLEAN, c \in BOOLEAN}

AnyLabels(choices) == choices \cup {"Medium", None}

\* The namespace as it reaches "return translate_to_cli(args)".
Ready ==
    NormalizeOptions(SetAttr(SetAttr(
        ParserDefaults(GuiDefaultOptions(BuiltIn, <<"/", "h">>)),
        "input", <<>>), "archive_content", {}))

InitTranslate ==
    /\ config = BuiltIn
    /\ home = <<"/", "h">>
    /\ fs = NoFiles
    /\ defs = GuiDefaultOptions(BuiltIn, home)
    /\ parser = ParserDefaults(defs)
    /\ \E r \in AnyLabels(RecoubChoices), v \in AnyLabels(QualityChoices),
          a \in AnyLabels(QualityChoices), c \in AnyLabels(AacChoices),
          s \in AnyLabels(SpecialChoices) :
          args = [Ready EXCEPT !.recoubs = r, !.v_quality = v, !.a_quality = a,
                               !.aac = c, !.special = s]
    /\ opts = Empty
    /\ pc = "translate"
    /\ status = "running"

InitLabels == InitOf({Env(c, <<"/", "h">>, NoFiles) : c \in AnyCodes}) \/ InitTranslate

NextLabels == GuiDefaultOptionsInit \/ BuildParser \/ ParseArgs(TextUsers(parser)) \/ AfterParse

SpecLabels == InitLabels /\ [][NextLabels]_vars

----------------------------------------------------------------------------
(* Properties of the input descriptors.                                    *)

\* The positions of parse_cli at which args.input is complete.
InputBuilt == pc \in {"archive", "normalize", "translate", "returned", "engine"}

\* The tokens of a text, read off its characters: a token starts at a
\* character other than "," that begins the text or follows a ",", and runs
\* to the character before the next "," or to the end.
TokenStarts(text) ==
    {i \in 1..Len(text) : text[i] # "," /\ (i = 1 \/ text[i - 1] = ",")}

TokenEnd(text, i) ==
    CHOOSE j \in i..Len(text) :
        /\ \A k \in i..j : text[k] # ","
        /\ (j = Len(text) \/ text[j + 1] = ",")

TokensOf(text) ==
    LET S == TokenStarts(text) IN
    [n \in 1..Cardinality(S) |->
        LET i == CHOOSE i \in S : Cardinality({k \in S : k < i}) = n - 1
        IN  SubSeq(text, i, TokenEnd(text, i))]

\* The class the elements of each field have in args.input.
FieldClass ==
    [urls |-> "DirectUrl", ids |-> "str", lists |-> "LinkList",
     channels |-> "Channel", tags |-> "Tag", searches |-> "Search",
     communities |-> "Community", stories |-> "Story"]

Precedence ==
    [DirectUrl |-> 1, str |-> 2, LinkList |-> 3, Channel |-> 4, Tag |-> 5,
     Search |-> 6, Community |-> 7, Story |-> 8, HotSection |-> 9,
     RandomCategory |-> 10]

ExpectedOf(field) ==
    LET t == TokensOf(args[field]) IN
    [n \in 1..Len(t) |-> [kind |-> FieldClass[field], payload |-> t[n]]]

ExpectedInput ==
    ExpectedOf("urls") \o ExpectedOf("ids") \o ExpectedOf("lists") \o
    ExpectedOf("channels") \o ExpectedOf("tags") \o ExpectedOf("searches") \o
    ExpectedOf("communities") \o ExpectedOf("stories") \o
    (IF args.hot THEN <<[kind |-> "HotSection", payload |-> <<>>]>> ELSE <<>>) \o
    [n \in 1..args.random |-> [kind |-> "RandomCategory", payload |-> <<>>]]

CountOf(class) ==
    Cardinality({i \in 1..Len(args.input) : args.input[i].kind = class})

\* C1: the input sequence is the descriptors of urls, ids, lists, channels,
\* tags, searches, communities and stories in this order, each field's tokens
\* from left to right, then one HotSection iff hot is set, then as many
\* RandomCategory entries as the random count; at no moment of the
\* construction does an element of a later field precede one of an earlier.
C1_FieldPrecedence ==
    /\ "input" \in DOMAIN args =>
          \A i, j \in 1..Len(args.input) :
              i < j => Precedence[args.input[i].kind] <= Precedence[args.input[j].kind]
    /\ InputBuilt =>
          /\ args.input = ExpectedInput
          /\ CountOf("HotSection") = (IF args.hot THEN 1 ELSE 0)
          /\ CountOf("RandomCategory") = args.random

\* A run whose input has an element of ids, one of tags and the hot section.
C1_Witness ==
    /\ InputBuilt
    /\ Len(args.input) = 3
    /\ args.hot
    /\ args.ids # <<>>
    /\ args.tags # <<>>

OnlySeparatorsAndBlanks(text) ==
    text # <<>> /\ \A i \in 1..Len(text) : text[i] \in {",", " "}

OnlySeparators(text) == \A i \in 1..Len(text) : text[i] = ","

Fields == {FieldNames[i] : i \in 1..Len(FieldNames)}

\* C2 as stated: empty tokens give no descriptor and no error, and a field of
\* only separators and whitespace gives no descriptor.
C2_BlankFieldYieldsNothing ==
    InputBuilt =>
        /\ status = "running"
        /\ \A f \in Fields :
              OnlySeparatorsAndBlanks(args[f]) => CountOf(FieldClass[f]) = 0

\* C2 amended: empty tokens give no descriptor and no error, so a field has as
\* many descriptors as non-empty tokens and a field of only separators has
\* none; nothing is trimmed, so a token of whitespace is kept: ", ," gives one
\* descriptor, of payload " ".
C2_EmptyTokensDropped ==
    InputBuilt =>
        /\ status = "running"
        /\ \A i \in 1..Len(args.input) :
              args.input[i].kind \notin {"HotSection", "RandomCategory"}
                  => args.input[i].payload # <<>>
        /\ \A f \in Fields :
              /\ CountOf(FieldClass[f]) = Cardinality(TokenStarts(args[f]))
              /\ OnlySeparators(args[f]) => CountOf(FieldClass[f]) = 0
              /\ args[f] = <<",", " ", ",">> =>
                    /\ CountOf(FieldClass[f]) = 1
                    /\ \E i \in 1..Len(args.input) :
                          args.input[i] = [kind |-> FieldClass[f], payload |-> <<" ">>]

\* The field ", ,": two empty tokens dropped, the blank one kept.
C2_Witness ==
    /\ InputBuilt
    /\ args.channels = <<",", " ", ",">>
    /\ args.input = <<[kind |-> "Channel", payload |-> <<" ">>]>>

\* A field of only separators, and another with an empty token among others.
C2_WitnessSeparators ==
    /\ InputBuilt
    /\ args.channels = <<",">>
    /\ args.tags = <<",", "a">>
    /\ Len(args.input) = 1

\* The classes of coub that wrap an input source.
DescriptorClasses ==
    {"DirectUrl", "LinkList", "Channel", "Tag", "Search", "Community",
     "Story", "HotSection", "RandomCategory"}

\* C3: every element of the input sequence is a descriptor of one of the
\* declared kinds, with a non-empty payload where it carries one; a token of
\* ids is wrapped too and is no bare string.
C3_EveryElementTyped ==
    "input" \in DOMAIN args =>
        \A i \in 1..Len(args.input) :
            /\ args.input[i].kind \in DescriptorClasses \cup {"Id"}
            /\ args.input[i].kind \notin {"HotSection", "RandomCategory"}
                  => args.input[i].payload # <<>>

----------------------------------------------------------------------------
(* Properties of the labels and codes.                                     *)

Returned == pc \in {"returned", "engine"}

\* The step of "return translate_to_cli(args)" that returns.
Translated == pc = "translate" /\ pc' = "returned"

Triple(o) == <<o.share, o.v_only, o.a_only>>

\* C4: the tables of translate_to_cli and of GuiDefaultOptions are inverse to
\* each other: the code a label is translated to has that label in the
\* GuiDefaultOptions table (0 and -1 indexing the quality list), and a default
\* code shown as its label and left alone is translated back to that code.
C4_LabelRoundTrip ==
    [][Translated =>
          /\ PyIndex(QUALITY_LABEL, args'.v_quality) = args.v_quality
          /\ PyIndex(QUALITY_LABEL, args'.a_quality) = args.a_quality
          /\ PyIndex(AAC_LABEL, args'.aac) = args.aac
          /\ PyIndex(RECOUB_LABEL, args'.recoubs) = args.recoubs
          /\ Triple(args') \in DOMAIN SPECIAL_LABEL
          /\ SPECIAL_LABEL[Triple(args')] = args.special
          /\ args.v_quality = parser.v_quality => args'.v_quality = defs.V_QUALITY
          /\ args.a_quality = parser.a_quality => args'.a_quality = defs.A_QUALITY
          /\ args.aac = parser.aac => args'.aac = defs.AAC
          /\ args.recoubs = parser.recoubs => args'.recoubs = defs.RECOUBS
          /\ args.special = parser.special =>
                Triple(args') = <<defs.SHARE, defs.V_ONLY, defs.A_ONLY>>]_vars

\* A returned command whose quality is the best one (code -1) and whose
\* special format is not the default.
C4_Witness ==
    /\ Returned
    /\ args.v_quality = -1
    /\ args.a_quality = 0
    /\ args.v_only

CodesOnly(o) ==
    /\ o.v_quality \in {0, -1}
    /\ o.a_quality \in {0, -1}
    /\ o.aac \in 0..3
    /\ o.recoubs \in 0..2
    /\ Triple(o) \in {<<FALSE, FALSE, FALSE>>, <<TRUE, FALSE, FALSE>>,
                      <<FALSE, TRUE, FALSE>>, <<FALSE, FALSE, TRUE>>}

\* C5: the command parse_cli returns, and the one the engine gets, holds codes
\* and no label: the qualities are 0 or -1, aac is in 0..3, recoubs in 0..2
\* and (share, v_only, a_only) is the triple of the chosen special label;
\* "Only Recoubs" with "Audio only" gives 2 and (FALSE, FALSE, TRUE).
C5_CodesOnly ==
    [][/\ pc' \in {"returned", "engine"} => CodesOnly(args')
       /\ pc' = "engine" => opts' = args /\ CodesOnly(opts')
       /\ Translated =>
             /\ Triple(args') = CLI_SPECIAL_LABEL[args.special]
             /\ (args.recoubs = "Only Recoubs" /\ args.special = "Audio only") =>
                   (args'.recoubs = 2 /\ Triple(args') = <<FALSE, FALSE, TRUE>>)]_vars

\* The engine has a command with recoubs = 2 and the audio-only triple.
C5_Witness ==
    /\ pc = "engine"
    /\ opts.recoubs = 2
    /\ Triple(opts) = <<FALSE, FALSE, TRUE>>

----------------------------------------------------------------------------
(* Properties of the archive and of the normalisation.                     *)

\* t is l without its leading and trailing whitespace.
IsStripOf(t, l) ==
    \E i \in 1..(Len(l) + 1), j \in 0..Len(l) :
        /\ t = SubSeq(l, i, j)
        /\ \A k \in 1..Len(l) : (k < i \/ k > j) => l[k] \in Whitespace
        /\ t # <<>> => (t[1] \notin Whitespace /\ t[Len(t)] \notin Whitespace)

ThreeLines == <<<<"x", "\n">>, <<"x", "x", "\n">>, <<"x", "\n">>>>

\* C6: the archive content is the set of the stripped lines of the archive
\* file when the path is set and the file exists (the lines x, xx, x give a
\* set of two), and the empty set when the path is unset or no such file
\* exists; no step creates or writes a file.
C6_ArchiveContent ==
    [][/\ fs' = fs
       /\ pc = "archive" =>
             /\ args'.archive = args.archive
             /\ IF args.archive \in {None, ""} \/ args.archive \notin DOMAIN fs
                THEN args'.archive_content = {}
                ELSE LET lines == fs[args.archive] IN
                     /\ \A i \in 1..Len(lines) :
                           \E t \in args'.archive_content : IsStripOf(t, lines[i])
                     /\ \A t \in args'.archive_content :
                           \E i \in 1..Len(lines) : IsStripOf(t, lines[i])
                     /\ lines = ThreeLines =>
                           args'.archive_content = {<<"x">>, <<"x", "x">>}]_vars

\* The archive file holds a line twice, with different whitespace around it.
C6_Witness ==
    /\ pc = "normalize"
    /\ args.archive = "a.txt"
    /\ "a.txt" \in DOMAIN fs
    /\ fs["a.txt"] = <<<<" ", "x", "\n">>, <<"x", "x", "\n">>, <<"x">>>>
    /\ Cardinality(args.archive_content) = 2

Rewritten == {"name_template", "tag_sep", "fallback_char"}

\* The three rewrites, each on the whole namespace.
RuleName(a) == [a EXCEPT !.name_template = IF @ = "%id%" THEN None ELSE @]

RuleTagSep(a) == [a EXCEPT !.tag_sep = IF @ = "space" THEN " " ELSE @]

RuleFallback(a) ==
    [a EXCEPT !.fallback_char =
        IF @ = None THEN "" ELSE IF @ = "space" THEN " " ELSE @]

\* C7: the normalisation turns a name_template of "%id%" into None, a tag_sep
\* of "space" into " ", a fallback_char of None into "" and of "space" into
\* " ", and changes nothing else; each result depends on its own field only,
\* so the three rewrites give the same in any order.
C7_Normalize ==
    [][pc = "normalize" =>
          /\ DOMAIN args' = DOMAIN args
          /\ \A k \in DOMAIN args : k \notin Rewritten => args'[k] = args[k]
          /\ args'.name_template =
                (IF args.name_template = "%id%" THEN None ELSE args.name_template)
          /\ args'.tag_sep = (IF args.tag_sep = "space" THEN " " ELSE args.tag_sep)
          /\ args'.fallback_char =
                (IF args.fallback_char = None THEN ""
                 ELSE IF args.fallback_char = "space" THEN " "
                 ELSE args.fallback_char)
          /\ args' = RuleName(RuleTagSep(RuleFallback(args)))
          /\ args' = RuleFallback(RuleName(RuleTagSep(args)))
          /\ args' = RuleTagSep(RuleFallback(RuleName(args)))
          /\ args' = RuleFallback(RuleTagSep(RuleName(args)))]_vars

\* A normalised run in which another option holds the keyword "space".
C7_Witness ==
    /\ pc = "translate"
    /\ args.preview = "space"
    /\ args.name_template = None
    /\ parser.name_template = "%id%"

\* A normalised run whose separator was the keyword.
C7_WitnessSep ==
    /\ pc = "translate"
    /\ parser.tag_sep = "space"
    /\ args.tag_sep = " "

----------------------------------------------------------------------------
(* Properties of the defaults and of the deferred exit.                    *)

EndsWith(p, suffix) ==
    Len(p) >= Len(suffix) /\ SubSeq(p, Len(p) - Len(suffix) + 1, Len(p)) = suffix

StartsWith(p, prefix) == Len(p) >= Len(prefix) /\ SubSeq(p, 1, Len(prefix)) = prefix

\* C8: once GuiDefaultOptions is constructed PROMPT is "yes" or "no", a
\* loaded "yes" or "no" being kept and anything else made "no", and PATH is
\* absolute, a loaded absolute path being kept and any other one replaced by
\* the directory coubs of the home directory.
C8_PromptAndPath ==
    pc # "start" =>
        /\ defs.PROMPT \in {"yes", "no"}
        /\ config.PROMPT \in {"yes", "no"} => defs.PROMPT = config.PROMPT
        /\ config.PROMPT \notin {"yes", "no"} => defs.PROMPT = "no"
        /\ isabs(defs.PATH)
        /\ (config.PATH # <<>> /\ config.PATH[1] = "/") => defs.PATH = config.PATH
        /\ (config.PATH = <<>> \/ config.PATH[1] # "/") =>
              /\ StartsWith(defs.PATH, home)
              /\ EndsWith(defs.PATH, <<"/">> \o coubs)
              /\ Len(defs.PATH) \in {Len(home) + 5, Len(home) + 6}
        /\ \A k \in DOMAIN config : k \notin {"PROMPT", "PATH"} => defs[k] = config[k]

\* The loaded path is "./o" and the loaded prompt is neither "yes" nor "no".
C8_Witness ==
    /\ pc = "build"
    /\ config.PATH = <<".", "/", "o">>
    /\ config.PROMPT = None
    /\ defs.PATH = <<"/", "h", "/", "c", "o", "u", "b", "s">>

BeforeInput == {"build", "parse", "check", "exited"}

----------------------------------------------------------------------------
(* Properties of the lookups.                                              *)

\* A default that has no entry in its GuiDefaultOptions table: an index the
\* list does not have (a list of n labels has the indices -n..n-1), or a
\* triple with more than one flag set.
NoLabel(d) ==
    \/ d.RECOUBS \notin -3..2
    \/ d.V_QUALITY \notin -2..1
    \/ d.A_QUALITY \notin -2..1
    \/ d.AAC \notin -4..3
    \/ (d.SHARE /\ d.V_ONLY) \/ (d.SHARE /\ d.A_ONLY) \/ (d.V_ONLY /\ d.A_ONLY)

\* A label that is not in the table of its option.
OutOfDomain(a) ==
    \/ a.v_quality \notin {"Worst quality", "Best quality"}
    \/ a.a_quality \notin {"Worst quality", "Best quality"}
    \/ a.aac \notin {"Only MP3", "No Bias", "Prefer AAC", "Only AAC"}
    \/ a.recoubs \notin {"No Recoubs", "With Recoubs", "Only Recoubs"}
    \/ a.special \notin {"None", "Share", "Video only", "Audio only"}

\* C10: no lookup falls back on a default: translate_to_cli on a label outside
\* its table fails and no command is returned or handed to the engine, and a
\* default code or triple without a label fails the construction of the
\* parser, which gets no label for it; a failed process takes no further step.
C10_NoSilentDefault ==
    [][/\ (pc = "translate" /\ OutOfDomain(args)) =>
             (pc' = "crashed" /\ status' = "exception" /\ args' = args /\ Unset(opts'))
       /\ (pc = "build" /\ NoLabel(defs)) =>
             (pc' = "crashed" /\ status' = "exception" /\ Unset(parser'))
       /\ pc' = "parse" =>
             /\ ~NoLabel(defs)
             /\ parser'.special \in {"None", "Share", "Video only", "Audio only"}
             /\ parser'.special = "Share" <=> defs.SHARE
             /\ parser'.special = "Video only" <=> defs.V_ONLY
             /\ parser'.special = "Audio only" <=> defs.A_ONLY
       /\ pc' \in {"returned", "engine"} => ~OutOfDomain(IF pc = "translate" THEN args ELSE parser)
       /\ pc # "crashed"]_vars

\* translate_to_cli has failed on a label outside the audio table.
C10_Witness ==
    /\ pc = "crashed"
    /\ status = "exception"
    /\ ~Unset(parser)
    /\ args.aac = "Medium"

\* The construction of the parser has failed on a triple of two flags.
C10_WitnessDefaults ==
    /\ pc = "crashed"
    /\ Unset(parser)
    /\ defs.SHARE
    /\ defs.V_ONLY

============================================================================
